---- MODULE Spec2Model ----
(***************************************************************************)
(* uuencode_lite: the character maps encode_char / decode_char, the        *)
(* encoder uuencode and the decoder uudecode of src/src/lib.rs.            *)
(*                                                                         *)
(* Bytes are naturals 0..255 (u8), texts and buffers are sequences of      *)
(* bytes.  An Option<u8> is a record [some, v].  The two loops of the      *)
(* codec are stepped: one step of the encoder is one iteration of its      *)
(* `while let` loop (one line), one step of the decoder is one of          *)
(* ReadLength, ReadGroup, ConsumeNewline.                                  *)
(***************************************************************************)
EXTENDS Integers, Sequences, FiniteSets, TLC

VARIABLES enc, chan, dec, chr

vars == <<enc, chan, dec, chr>>

-----------------------------------------------------------------------------
(* Bounds of the model *)

\* every byte sequence of at most MaxShort bytes over ByteVals is an input
MaxShort == 3
\* one patterned input of every length from MaxShort + 1 to MaxLen
MaxLen == 91
\* every text of at most MaxText characters over TextChars is decoded
MaxText == 6

-----------------------------------------------------------------------------
(* u8 arithmetic *)

U8 == 256

Min(a, b) == IF a < b THEN a ELSE b

Pow2(k) == CASE k = 0 -> 1 [] k = 1 -> 2 [] k = 2 -> 4 [] k = 3 -> 8
             [] k = 4 -> 16 [] k = 5 -> 32 [] k = 6 -> 64 [] k = 7 -> 128
             [] OTHER -> 256

\* a << k on u8: the bits shifted out are lost
Shl(a, k) == (a * Pow2(k)) % U8

\* a >> k on u8
Shr(a, k) == a \div Pow2(k)

RECURSIVE BitOrN(_, _, _)
BitOrN(a, b, n) ==
    IF n = 0 THEN 0
    ELSE (IF (a % 2 = 1) \/ (b % 2 = 1) THEN 1 ELSE 0)
         + 2 * BitOrN(a \div 2, b \div 2, n - 1)

\* a | b on u8
BitOr(a, b) == BitOrN(a, b, 8)

RECURSIVE BitAndN(_, _, _)
BitAndN(a, b, n) ==
    IF n = 0 THEN 0
    ELSE (IF (a % 2 = 1) /\ (b % 2 = 1) THEN 1 ELSE 0)
         + 2 * BitAndN(a \div 2, b \div 2, n - 1)

\* a & b on u8
BitAnd(a, b) == BitAndN(a, b, 8)

Some(x) == [some |-> TRUE, v |-> x]
None == [some |-> FALSE, v |-> 0]

\* u8::checked_add
checked_add(a, b) == IF a + b >= U8 THEN None ELSE Some(a + b)

\* u8::checked_sub
checked_sub(a, b) == IF a - b < 0 THEN None ELSE Some(a - b)

-----------------------------------------------------------------------------
(* Character maps *)

Backtick == 96
Space == 32
Newline == 10

encode_char(value) ==
    IF value = 0 THEN Some(Backtick) ELSE checked_add(value, 32)

decode_char_no_space(value) ==
    IF value = Backtick \/ value = 0 THEN Some(0)
    ELSE IF value <= Space THEN None ELSE Some(value - 32)

decode_char(value) ==
    IF value = Backtick \/ value = 0 THEN Some(0) ELSE checked_sub(value, 32)

\* UUEncodeError { line, character, msg }: msg is determined by the input byte
UUEncodeError(l, c, input) == [line |-> l, character |-> c, ch |-> input]

NoError == [line |-> 0, character |-> 0, ch |-> 0]

-----------------------------------------------------------------------------
(* Encoder *)

LineChunk == 45

\* buffer.fill(0); buffer[..len].copy_from_slice(chunk)
FillBuffer(chunk) == [k \in 1..3 |-> IF k <= Len(chunk) THEN chunk[k] ELSE 0]

EncodeUnitsBadShift(buffer) ==
    << BitAnd(Shr(buffer[1], 2), 63),
       BitAnd(BitOr(Shl(buffer[1], 4), Shr(buffer[2], 4)), 63),
       BitAnd(BitOr(Shl(buffer[2], 2), Shr(buffer[3], 4)), 63),
       BitAnd(buffer[3], 63) >>

\* the four 6-bit units of a 3-byte buffer
EncodeUnits(buffer) ==
    << BitAnd(Shr(buffer[1], 2), 63),
       BitAnd(BitOr(Shl(buffer[1], 4), Shr(buffer[2], 4)), 63),
       BitAnd(BitOr(Shl(buffer[2], 2), Shr(buffer[3], 6)), 63),
       BitAnd(buffer[3], 63) >>

\* character offsets reported for the four units of a group
UnitOffset(k) == CASE k = 1 -> 0 [] k = 2 -> 1 [] k = 3 -> 1 [] OTHER -> 2

\* push the four characters of one group; stops at the first failing unit
RECURSIVE PushUnits(_, _, _, _, _)
PushUnits(units, k, cur_line, cur_char, out) ==
    IF k > 4 THEN [ok |-> TRUE, out |-> out, err |-> NoError]
    ELSE LET c == encode_char(units[k]) IN
         IF ~c.some
         THEN [ok |-> FALSE, out |-> out,
               err |-> UUEncodeError(cur_line, cur_char + UnitOffset(k), units[k])]
         ELSE PushUnits(units, k + 1, cur_line, cur_char, Append(out, c.v))

\* for chunk in line_chunk.chunks(3) { ... }
RECURSIVE EncodeGroups(_, _, _, _)
EncodeGroups(line_chunk, cur_char, cur_line, out) ==
    IF cur_char >= Len(line_chunk) THEN [ok |-> TRUE, out |-> out, err |-> NoError]
    ELSE LET chunk == SubSeq(line_chunk, cur_char + 1,
                             Min(cur_char + 3, Len(line_chunk)))
             r == PushUnits(EncodeUnits(FillBuffer(chunk)), 1, cur_line, cur_char, out)
         IN  IF ~r.ok THEN r
             ELSE EncodeGroups(line_chunk, cur_char + Len(chunk), cur_line, r.out)

PeekAlways(s) == TRUE

\* line_chunks.peek().is_some() after the chunk starting at s.next was taken
PeekIsSome(s) == s.next + LineChunk < Len(s.data)

EncInit(data) ==
    [data |-> data, encoded |-> << >>, cur_line |-> 0, next |-> 0,
     pc |-> "Loop", err |-> NoError]

EncIdle == [EncInit(<< >>) EXCEPT !.pc = "Idle"]

\* one iteration of `while let Some(line_chunk) = line_chunks.next()`
EncLine(s) ==
    LET line_chunk == SubSeq(s.data, s.next + 1, Min(s.next + LineChunk, Len(s.data)))
        prefix == encode_char(Len(line_chunk) % U8)
    IN  IF ~prefix.some
        THEN [s EXCEPT !.pc = "Err",
                       !.err = UUEncodeError(s.cur_line, 0, Len(line_chunk) % U8)]
        ELSE LET r == EncodeGroups(line_chunk, 0, s.cur_line, Append(s.encoded, prefix.v))
             IN  IF ~r.ok
                 THEN [s EXCEPT !.pc = "Err", !.err = r.err, !.encoded = r.out]
                 ELSE [s EXCEPT
                         !.encoded = IF PeekIsSome(s) THEN Append(r.out, Newline)
                                     ELSE r.out,
                         !.cur_line = IF PeekIsSome(s) THEN s.cur_line + 1
                                      ELSE s.cur_line,
                         !.next = s.next + Len(line_chunk)]

\* the loop ends when the chunk iterator is empty: Ok(encoded)
EncReturn(s) == [s EXCEPT !.pc = "Ok"]

-----------------------------------------------------------------------------
(* Decoder *)

DecInit(data) ==
    [input |-> data, idx |-> 0, decoded |-> << >>, cur_line |-> 0,
     cur_input_char |-> 0, cur_output_char |-> 0, output_char_count |-> 0,
     line_start |-> 0, pc |-> "ReadLength", err |-> NoError]

DecIdle == [DecInit(<< >>) EXCEPT !.pc = "Idle"]

\* top of the outer loop: the counters are reset and the length prefix is read
DecReadLength(s) ==
    IF s.idx >= Len(s.input)
    THEN [s EXCEPT !.pc = "Done", !.cur_input_char = 0, !.cur_output_char = 0,
                   !.line_start = Len(s.decoded)]
    ELSE LET ch == s.input[s.idx + 1]
             v  == decode_char(ch)
         IN  IF ~v.some
             THEN [s EXCEPT !.pc = "Err", !.idx = s.idx + 1,
                            !.cur_input_char = 0, !.cur_output_char = 0,
                            !.line_start = Len(s.decoded),
                            !.err = UUEncodeError(s.cur_line, 0, ch)]
             ELSE [s EXCEPT !.pc = "ReadGroup", !.idx = s.idx + 1,
                            !.cur_input_char = 0, !.cur_output_char = 0,
                            !.line_start = Len(s.decoded),
                            !.output_char_count = v.v]

\* decode_char on chunk[0..3] in order; the first failure is the error
RECURSIVE DecodeChunk(_, _, _, _, _)
DecodeChunk(chunk, k, cur_line, cur_input_char, buffer) ==
    IF k > 4 THEN [ok |-> TRUE, buffer |-> buffer, err |-> NoError]
    ELSE LET v == decode_char(chunk[k]) IN
         IF ~v.some
         THEN [ok |-> FALSE, buffer |-> buffer,
               err |-> UUEncodeError(cur_line, cur_input_char + (k - 1), chunk[k])]
         ELSE DecodeChunk(chunk, k + 1, cur_line, cur_input_char, Append(buffer, v.v))

DecodeBytesBadShift(buffer) ==
    << BitOr(Shl(buffer[1], 2), Shr(buffer[2], 4)),
       BitOr(Shl(buffer[2], 4), Shr(buffer[3], 4)),
       BitOr(Shl(buffer[3], 6), buffer[4]) >>

\* the three bytes of four decoded units
DecodeBytes(buffer) ==
    << BitOr(Shl(buffer[1], 2), Shr(buffer[2], 4)),
       BitOr(Shl(buffer[2], 4), Shr(buffer[3], 2)),
       BitOr(Shl(buffer[3], 6), buffer[4]) >>

\* one iteration of the inner loop
DecReadGroup(s) ==
    LET remaining == Len(s.input) - s.idx IN
    IF remaining < 4
    THEN \* take(4) yields fewer than 4 bytes: chunk[..].copy_from_slice panics
         [s EXCEPT !.pc = "Panic", !.idx = Len(s.input)]
    ELSE LET chunk == SubSeq(s.input, s.idx + 1, s.idx + 4)
             r == DecodeChunk(chunk, 1, s.cur_line, s.cur_input_char, << >>)
         IN  IF ~r.ok
             THEN [s EXCEPT !.pc = "Err", !.idx = s.idx + 4, !.err = r.err]
             ELSE LET b  == DecodeBytes(r.buffer)
                      d1 == Append(s.decoded, b[1])
                      d2 == IF s.cur_output_char + 1 < s.output_char_count
                            THEN Append(d1, b[2]) ELSE d1
                      d3 == IF s.cur_output_char + 2 < s.output_char_count
                            THEN Append(d2, b[3]) ELSE d2
                  IN  [s EXCEPT !.decoded = d3,
                                !.idx = s.idx + 4,
                                !.cur_output_char = s.cur_output_char + 3,
                                !.cur_input_char = s.cur_input_char + 4,
                                !.pc = IF s.cur_output_char + 3 >= s.output_char_count
                                       THEN "ConsumeNewline" ELSE "ReadGroup"]

\* input_iter.next(); cur_line += 1
DecConsumeNewline(s) ==
    [s EXCEPT !.idx = Min(s.idx + 1, Len(s.input)),
              !.cur_line = s.cur_line + 1,
              !.pc = "ReadLength"]

DecStep(s) ==
    CASE s.pc = "ReadLength"     -> DecReadLength(s)
      [] s.pc = "ReadGroup"      -> DecReadGroup(s)
      [] s.pc = "ConsumeNewline" -> DecConsumeNewline(s)
      [] OTHER -> s

DecTerminal(s) == s.pc \in {"Done", "Err", "Panic"}

\* what the caller of uudecode observes
DecResult(s) ==
    CASE s.pc = "Done" -> [kind |-> "Ok", bytes |-> s.decoded, err |-> NoError]
      [] s.pc = "Err"  -> [kind |-> "Err", bytes |-> << >>, err |-> s.err]
      [] OTHER         -> [kind |-> "Panic", bytes |-> << >>, err |-> NoError]

RECURSIVE DecRun(_)
DecRun(s) == IF DecTerminal(s) THEN s ELSE DecRun(DecStep(s))

uudecode(data) == DecResult(DecRun(DecInit(data)))

-----------------------------------------------------------------------------
(* Inputs *)

\* every sequence of at most n elements of S
SeqsUpTo(S, n) == UNION {[1..k -> S] : k \in 0..n}

ByteVals == {0, 97, 255}

\* b"cat"
Cat == <<99, 97, 116>>

\* "#8V%T"
CatText == <<35, 56, 86, 37, 84>>

\* a byte sequence of length n with zero bytes in it
Pattern(n) == [i \in 1..n |-> IF i % 5 = 0 THEN 0 ELSE (i * 83 + n * 29) % U8]

Inputs ==
    SeqsUpTo(ByteVals, MaxShort) \cup {Pattern(n) : n \in (MaxShort + 1)..MaxLen}
                                 \cup {Cat}

\* newline, space, '!', backtick, 'a'
TextChars == {Newline, Space, 33, Backtick, 97}

Texts == SeqsUpTo(TextChars, MaxText)

\* NUL, newline, space, 'a': what one character of a text may be replaced by
CorruptChars == {0, Newline, Space, 97}

NoChan == [kind |-> "none", pos |-> 0, ch |-> 0]

ChrIdle == [op |-> "none", arg |-> 0, res |-> None, pc |-> "Idle"]

-----------------------------------------------------------------------------
(* Spec: uuencode(data), then uudecode of its text, of its text with one   *)
(* character replaced, or of a proper prefix of its text                   *)

Init ==
    /\ enc \in {EncInit(d) : d \in Inputs}
    /\ chan = NoChan
    /\ dec = DecIdle
    /\ chr = ChrIdle

EncodeLine ==
    /\ enc.pc = "Loop"
    /\ enc.next < Len(enc.data)
    /\ enc' = EncLine(enc)
    /\ UNCHANGED <<chan, dec, chr>>

EncodeReturn ==
    /\ enc.pc = "Loop"
    /\ enc.next >= Len(enc.data)
    /\ enc' = EncReturn(enc)
    /\ UNCHANGED <<chan, dec, chr>>

DecodeIntact ==
    /\ enc.pc = "Ok"
    /\ dec.pc = "Idle"
    /\ dec' = DecInit(enc.encoded)
    /\ chan' = [kind |-> "intact", pos |-> 0, ch |-> 0]
    /\ UNCHANGED <<enc, chr>>

DecodeCorrupted ==
    /\ enc.pc = "Ok"
    /\ dec.pc = "Idle"
    /\ \E p \in 1..Len(enc.encoded), c \in CorruptChars :
          /\ enc.encoded[p] # c
          /\ dec' = DecInit([enc.encoded EXCEPT ![p] = c])
          /\ chan' = [kind |-> "corrupt", pos |-> p, ch |-> c]
    /\ UNCHANGED <<enc, chr>>

DecodeTruncated ==
    /\ enc.pc = "Ok"
    /\ dec.pc = "Idle"
    /\ \E k \in 1..(Len(enc.encoded) - 1) :
          /\ dec' = DecInit(SubSeq(enc.encoded, 1, k))
          /\ chan' = [kind |-> "truncate", pos |-> k, ch |-> 0]
    /\ UNCHANGED <<enc, chr>>

ReadLength ==
    /\ dec.pc = "ReadLength"
    /\ dec' = DecReadLength(dec)
    /\ UNCHANGED <<enc, chan, chr>>

ReadGroup ==
    /\ dec.pc = "ReadGroup"
    /\ dec' = DecReadGroup(dec)
    /\ UNCHANGED <<enc, chan, chr>>

ConsumeNewline ==
    /\ dec.pc = "ConsumeNewline"
    /\ dec' = DecConsumeNewline(dec)
    /\ UNCHANGED <<enc, chan, chr>>

Next ==
    \/ EncodeLine
    \/ EncodeReturn
    \/ DecodeIntact
    \/ DecodeCorrupted
    \/ DecodeTruncated
    \/ ReadLength
    \/ ReadGroup
    \/ ConsumeNewline

Spec == Init /\ [][Next]_vars

-----------------------------------------------------------------------------
(* SpecText: uudecode of an arbitrary short text *)

InitText ==
    /\ enc = EncIdle
    /\ chan = [kind |-> "text", pos |-> 0, ch |-> 0]
    /\ dec \in {DecInit(t) : t \in Texts}
    /\ chr = ChrIdle

NextText ==
    \/ ReadLength
    \/ ReadGroup
    \/ ConsumeNewline

SpecText == InitText /\ [][NextText]_vars

-----------------------------------------------------------------------------
(* SpecChar: one call of encode_char or decode_char on any u8 *)

InitChar ==
    /\ enc = EncIdle
    /\ chan = NoChan
    /\ dec = DecIdle
    /\ chr \in {[op |-> o, arg |-> a, res |-> None, pc |-> "Call"] :
                   o \in {"encode_char", "decode_char"}, a \in 0..(U8 - 1)}

CallEncodeChar ==
    /\ chr.pc = "Call"
    /\ chr.op = "encode_char"
    /\ chr' = [chr EXCEPT !.res = encode_char(chr.arg), !.pc = "Ret"]
    /\ UNCHANGED <<enc, chan, dec>>

CallDecodeChar ==
    /\ chr.pc = "Call"
    /\ chr.op = "decode_char"
    /\ chr' = [chr EXCEPT !.res = decode_char(chr.arg), !.pc = "Ret"]
    /\ UNCHANGED <<enc, chan, dec>>

NextChar ==
    \/ CallEncodeChar
    \/ CallDecodeChar

SpecChar == InitChar /\ [][NextChar]_vars

-----------------------------------------------------------------------------
(* Helpers of the properties *)

CeilDiv(a, b) == (a + b - 1) \div b

\* the documented width of a full line: the prefix and 60 data characters
LineWidth == 61

\* the positions of the newlines of a text
NewlineAt(text) == {i \in 1..Len(text) : text[i] = Newline}

\* the position of the k-th newline; 0 before the first, Len + 1 after the last
KthNewline(text, k) ==
    IF k = 0 THEN 0
    ELSE IF k > Cardinality(NewlineAt(text)) THEN Len(text) + 1
    ELSE CHOOSE p \in NewlineAt(text) :
            Cardinality({q \in NewlineAt(text) : q <= p}) = k

\* the lines of a text: none for the empty text, else the parts between newlines
Lines(text) ==
    IF text = << >> THEN << >>
    ELSE [k \in 1..(Cardinality(NewlineAt(text)) + 1) |->
            SubSeq(text, KthNewline(text, k - 1) + 1, KthNewline(text, k) - 1)]

\* the number of raw bytes of chunk i (from 1) of an input of n bytes
ChunkLen(n, i) == Min(LineChunk, n - (i - 1) * LineChunk)

\* the units of a padded group, by division and remainder
ArithUnits(b) ==
    << b[1] \div 4,
       (b[1] % 4) * 16 + (b[2] \div 16),
       (b[2] % 16) * 4 + (b[3] \div 64),
       b[3] % 64 >>

\* the alphabet: backtick for 0, else the character 32 above the unit
AlphabetChar(u) == IF u = 0 THEN Backtick ELSE u + 32

\* byte k (from 1) of group j (from 0) of chunk i (from 1), zero past the chunk
GroupByte(data, i, j, k) ==
    IF 3 * j + k <= ChunkLen(Len(data), i)
    THEN data[(i - 1) * LineChunk + 3 * j + k] ELSE 0

\* the encoder has returned and its text has not been handed on yet
Encoded == enc.pc = "Ok" /\ dec.pc = "Idle"

-----------------------------------------------------------------------------
(* Properties *)

\* C1: uuencode never fails, and uudecode of its unchanged text never fails
\* and returns exactly the bytes that were encoded
C1_RoundTrip ==
    /\ enc.pc # "Err"
    /\ chan.kind = "intact" =>
          /\ dec.pc \notin {"Err", "Panic"}
          /\ dec.pc = "Done" => dec.decoded = enc.data

\* a two-line input with zero bytes and a partial last group came back whole
C1_Witness ==
    /\ chan.kind = "intact"
    /\ dec.pc = "Done"
    /\ Len(enc.data) > LineChunk
    /\ Len(enc.data) % 3 # 0
    /\ \E i \in 1..Len(enc.data) : enc.data[i] = 0
    /\ dec.decoded = enc.data

\* C2: every group of 1 to 3 bytes of a chunk, zero-padded to 3 bytes, is
\* written as the four alphabet characters of its four 6-bit units (top 6 bits
\* of byte0; low 2 of byte0 and top 4 of byte1; low 4 of byte1 and top 2 of
\* byte2; low 6 of byte2), each unit within 0..63; "cat" gives "#8V%T"
C2_GroupPacking ==
    Encoded =>
      /\ \A i \in 1..CeilDiv(Len(enc.data), LineChunk) :
           \A j \in 0..(CeilDiv(ChunkLen(Len(enc.data), i), 3) - 1) :
              LET b == [k \in 1..3 |-> GroupByte(enc.data, i, j, k)]
                  u == ArithUnits(b)
                  at == (i - 1) * (LineWidth + 1) + 1 + 4 * j
              IN  /\ at + 4 <= Len(enc.encoded)
                  /\ \A k \in 1..4 :
                        /\ u[k] \in 0..63
                        /\ enc.encoded[at + k] = AlphabetChar(u[k])
      /\ enc.data = Cat => enc.encoded = CatText

\* "cat" was encoded and its data characters are "8V%T"
C2_Witness ==
    /\ Encoded
    /\ enc.data = Cat
    /\ SubSeq(enc.encoded, 2, 5) = <<56, 86, 37, 84>>

\* C3: an input of n bytes gives ceil(n/45) lines (the empty text for n = 0),
\* line i being a prefix that decodes to the length of chunk i followed by
\* ceil(len/3)*4 data characters; lines are joined by one newline and the
\* text does not end with a newline
C3_LineFraming ==
    Encoded =>
      LET n == Len(enc.data)
          lines == Lines(enc.encoded)
      IN  /\ n = 0 => enc.encoded = << >>
          /\ Len(lines) = CeilDiv(n, LineChunk)
          /\ \A i \in 1..Len(lines) :
                /\ lines[i] # << >>
                /\ decode_char(lines[i][1]) = Some(ChunkLen(n, i))
                /\ i < Len(lines) => ChunkLen(n, i) = LineChunk
                /\ Len(lines[i]) = 1 + CeilDiv(ChunkLen(n, i), 3) * 4
          /\ n > 0 => enc.encoded[Len(enc.encoded)] # Newline

\* 46 bytes were encoded into two lines, the second with a prefix of 1
C3_Witness ==
    /\ Encoded
    /\ Len(enc.data) = LineChunk + 1
    /\ Len(Lines(enc.encoded)) = 2
    /\ decode_char(Lines(enc.encoded)[1][1]) = Some(LineChunk)
    /\ decode_char(Lines(enc.encoded)[2][1]) = Some(1)

\* C4: decode_char returns None for every byte below 0x20 and every byte
\* above 0x60
C4_DecodeCharRejects ==
    (chr.pc = "Ret" /\ chr.op = "decode_char" /\ (chr.arg < Space \/ chr.arg > Backtick))
        => chr.res = None

\* C5: encode_char gives backtick for 0, value + 32 for 1..63 and None for
\* every value above 63
C5_EncodeCharContract ==
    (chr.pc = "Ret" /\ chr.op = "encode_char") =>
        chr.res = IF chr.arg = 0 THEN Some(Backtick)
                  ELSE IF chr.arg <= 63 THEN Some(chr.arg + 32)
                  ELSE None

\* C6: when uudecode needs a group and fewer than 4 characters remain, it
\* returns an error value
C6_TruncatedIsErr ==
    [][(dec.pc = "ReadGroup" /\ Len(dec.input) - dec.idx < 4) => dec'.pc = "Err"]_vars

\* the position (from 1) of a replaced character lies in the data portion of
\* its line: it is neither a length prefix nor a separator
InDataPortion(pos) == (pos - 1) % (LineWidth + 1) \in 1..(LineWidth - 1)

\* the characters of the encoding alphabet, space included
InAlphabet(c) == c \in Space..Backtick

\* C7: when one character in the data portion of line n of a well-formed text,
\* at offset p of that portion, is replaced by a character outside the
\* alphabet, uudecode returns an error with line = n and character = p
C7_ErrorLocality ==
    (/\ chan.kind = "corrupt"
     /\ ~InAlphabet(chan.ch)
     /\ InDataPortion(chan.pos)
     /\ DecTerminal(dec))
        => /\ dec.pc = "Err"
           /\ dec.err.line = (chan.pos - 1) \div (LineWidth + 1)
           /\ dec.err.character = ((chan.pos - 1) % (LineWidth + 1)) - 1

\* the positions of a text that hold a backtick
BacktickAt(text) == {i \in 1..Len(text) : text[i] = Backtick}

\* the text with the backticks at the positions S replaced by spaces
WithSpaces(text, S) == [i \in 1..Len(text) |-> IF i \in S THEN Space ELSE text[i]]

C9_LineByteCount ==
    dec.pc = "ConsumeNewline" =>
        Len(dec.decoded) - dec.line_start = dec.output_char_count

\* C10: in ConsumeNewline one character is discarded only when it is a
\* newline, nothing is discarded at the end of the input, and any other
\* character is not dropped on the way to the next length prefix
C10_SeparatorIsNewline ==
    [][dec.pc = "ConsumeNewline" =>
          IF dec.idx >= Len(dec.input)
          THEN dec'.pc = "ReadLength" /\ dec'.idx = dec.idx
          ELSE IF dec.input[dec.idx + 1] = Newline
          THEN dec'.pc = "ReadLength" /\ dec'.idx = dec.idx + 1
          ELSE dec'.pc # "ReadLength"]_vars

====
